---- MODULE Spec2Model ----
(***************************************************************************)
(* A model of dmdfpwm_encoder.py: the delta modulator (_pcm_to_dfpwm),     *)
(* the channel interleavers, descriptor normalisation                      *)
(* (parse_channel_config), the header builder, the file writer and the     *)
(* two encode pipelines (run_interactive, run_command_line).               *)
(*                                                                         *)
(* Bytes are integers 0..255, byte strings are sequences of bytes, Python  *)
(* lists are sequences, Python strings are sequences of code points.       *)
(***************************************************************************)
EXTENDS Integers, Sequences, FiniteSets, TLC

VARIABLES
    pc,               \* position of the running call
    \* ---- _pcm_to_dfpwm ----
    pcm_data,         \* argument: raw PCM bytes
    samples,          \* decoded 16-bit samples
    current_sample,   \* the modulator's accumulator
    running_average,  \* the predictor's estimate
    dfpwm_bytes,      \* output so far, one byte per sample
    scaled_sample,    \* locals of the last loop iteration
    target,
    charge,
    \* ---- pipeline, interleaver, header, writer ----
    mode,             \* "interactive" | "command_line" | "call"
    config_file,      \* the configuration as the JSON file holds it
    channel_config,   \* the object loaded from it (mutated in place)
    channels,         \* what parse_channel_config returned
    chunk_size,
    artist, title, album,
    channel_data,     \* one byte string per encoded channel
    encode_failed,    \* per encoded channel: did the external encode fail
    encoded_for,      \* per encoded channel: encode_audio's channel_spec
    interleaved_data,
    channel_count,    \* build_header's arguments
    payload_length,
    header,
    file,             \* bytes of the output file, in the order written
    error             \* "none", or the exception that ended the call

dfpwmVars == <<pcm_data, samples, current_sample, running_average, dfpwm_bytes,
               scaled_sample, target, charge>>
pipeVars == <<mode, config_file, channel_config, channels, chunk_size, artist,
              title, album, channel_data, encode_failed, encoded_for, interleaved_data,
              channel_count, payload_length, header, file, error>>
vars == <<pc, dfpwmVars, pipeVars>>

----------------------------------------------------------------------------
(* Bounds of the model. *)

\* pcm inputs are byte strings of at most this many bytes
MaxPcmLen == 4

\* the byte values the bounded pcm inputs are built from: they give the
\* samples 0, 1, -1, 32767, -32768, -32767, 127, 128, 255, 256, ...
PcmBytes == {0, 1, 127, 128, 255}

\* channel streams handed to the interleavers: at most MaxChannels streams
\* of at most MaxStreamLen bytes each, chunk sizes in -MaxChunk..MaxChunk
MaxChannels == 2
MaxStreamLen == 2
MaxChunk == 3

\* the byte values of the bounded channel streams
StreamBytes == {0, 1}

\* one more list of streams, with a stream of three bytes: [1,0,1], [0,1]
ExampleStreams == << <<1, 0, 1>>, <<0, 1>> >>

\* configurations handed to parse_channel_config: no list, or a list of at
\* most MaxEntries entries
MaxEntries == 2

\* the channel entries of the bounded configurations: name absent, a known
\* name, an unknown name; index absent, 0, 7; filter absent or present
RawEntries ==
    {[has_name |-> hn, name |-> nm, has_index |-> hi, index |-> ix,
      has_filter |-> hf, filter |-> fl] :
        hn \in BOOLEAN, nm \in {"", "FL", "XX"}, hi \in BOOLEAN,
        ix \in {-1, 0, 7}, hf \in BOOLEAN, fl \in {"", "volume=0.5"}}

ChannelEntries ==
    {e \in RawEntries :
        /\ e.has_name <=> e.name # ""
        /\ e.has_index <=> e.index # -1
        /\ e.has_filter <=> e.filter # ""}

NotAList == [is_list |-> FALSE, items |-> <<>>]

\* arguments of build_header: values at and around the byte and field
\* boundaries, and values no field can hold
HeaderCounts == {-1, 0, 1, 255, 256, 513, 65535, 65536}
\* (a payload length is kept as two 16-bit halves, hi * 65536 + lo: TLC's
\* integers end at 2^31 - 1); these include -1, 0, 1, 255, 256, 65536,
\* 0x01020304, 2^31, 2^32 - 1 and 2^32
HeaderLengths ==
    {[hi |-> h, lo |-> l] :
        h \in {-1, 0, 1, 258, 32768, 65535, 65536}, l \in {0, 1, 255, 256, 772, 65535}}

\* the encode runs: configurations of at most MaxPipeChannels entries, the
\* external encoder returning at most MaxEncodedLen bytes per channel, chunk
\* sizes up to MaxPipeChunk
MaxPipeChannels == 2
MaxEncodedLen == 2
MaxPipeChunk == 2

\* what the external encoder may write for a channel: the first bytes of
\* 1, 0, 1, 0, ...
EncodedStreams == {[k \in 1..n |-> k % 2] : n \in 0..MaxEncodedLen}

\* the entries of the runs' configurations: a known name without index, an
\* unknown name with a filter and the index 7, and an entry without name
PipeEntries ==
    {e \in ChannelEntries :
        \/ e.name = "FL" /\ ~e.has_index /\ ~e.has_filter
        \/ e.name = "XX" /\ e.index = 7 /\ e.has_filter
        \/ ~e.has_name /\ e.index = 0 /\ ~e.has_filter}

\* track information <<artist, title, album>>: strings of code points whose
\* UTF-8 encodings take 1, 2, 3 and 4 bytes
TrackInfos ==
    {<< <<>>, <<>>, <<>> >>,
     << <<65>>, <<66>>, <<>> >>,
     << <<233>>, <<8364, 128512>>, <<65, 66>> >>}

----------------------------------------------------------------------------
(* Python arithmetic. *)

Max(a, b) == IF a >= b THEN a ELSE b
Min(a, b) == IF a <= b THEN a ELSE b

\* a // b for b # 0: the quotient rounded toward negative infinity
PyFloorDiv(a, b) == IF b > 0 THEN a \div b ELSE (-a) \div (-b)

\* int(a / b) for b > 0: the true quotient truncated toward zero. (The
\* operands here are below 2^31 and b is a power of two, so the float
\* quotient is exact.)
PyIntTrueDiv(a, b) == IF a >= 0 THEN a \div b ELSE -((-a) \div b)

RECURSIVE SeqOf(_, _)
\* all sequences over S of length exactly n
SeqOf(S, n) == IF n = 0 THEN {<<>>}
               ELSE {Append(s, x) : s \in SeqOf(S, n - 1), x \in S}

SeqUpTo(S, n) == UNION {SeqOf(S, k) : k \in 0..n}

----------------------------------------------------------------------------
(* _pcm_to_dfpwm *)

strength == 127
AverageMin == -32767
AverageMax == 32767
ScaleNum == 32767
ScaleDen == 32768
ChargeShift == 16

\* int.from_bytes(pcm_data[i:i+2], byteorder='little', signed=True)
FromBytesLE16(lo, hi) ==
    LET u == lo + 256 * hi IN IF u >= 32768 THEN u - 65536 ELSE u

\* BytesToSamples with the bound check off by one ("if i + 2 < len"): the
\* last sample is lost
BytesToSamplesDropLast(data) ==
    [k \in 1..Max(0, (Len(data) - 1) \div 2) |->
        FromBytesLE16(data[2 * k - 1], data[2 * k])]

\* for i in range(0, len, 2): if i + 1 < len: samples.append(...)
BytesToSamples(data) ==
    [k \in 1..(Len(data) \div 2) |-> FromBytesLE16(data[2 * k - 1], data[2 * k])]

\* ScaleSample with floor division ("(sample * 32767) // 32768")
ScaleSampleFloor(sample) == (sample * ScaleNum) \div ScaleDen

\* scaled_sample = int((sample * 32767) / 32768)
ScaleSample(sample) == PyIntTrueDiv(sample * ScaleNum, ScaleDen)

\* HighPulse with the tie going to the high pulse ("target >= current_sample")
HighPulseOnTie(tgt, cur) == tgt >= cur

\* if target > current_sample: high pulse, else low pulse
HighPulse(tgt, cur) == tgt > cur

\* charge // 16
ChargeStep(c) == PyFloorDiv(c, ChargeShift)

\* running_average = max(-32767, min(32767, running_average))
ClampAverage(a) == Max(AverageMin, Min(AverageMax, a))

\* the call: "if not pcm_data: return b''", else decode the samples and
\* set the initial state
DfpwmCall ==
    /\ pc = "dfpwm_call"
    /\ IF pcm_data = <<>>
       THEN /\ pc' = "dfpwm_done"
            /\ UNCHANGED <<samples, current_sample, running_average>>
       ELSE /\ pc' = "dfpwm_loop"
            /\ samples' = BytesToSamples(pcm_data)
            /\ current_sample' = 0
            /\ running_average' = 0
    /\ dfpwm_bytes' = <<>>
    /\ UNCHANGED <<pcm_data, scaled_sample, target, charge, pipeVars>>

\* one iteration of "for sample in samples"
DfpwmStep ==
    /\ pc = "dfpwm_loop"
    /\ Len(dfpwm_bytes) < Len(samples)
    /\ LET sample == samples[Len(dfpwm_bytes) + 1]
           sc == ScaleSample(sample)
           tg == sc - running_average
           hi == HighPulse(tg, current_sample)
           ch == IF hi THEN strength ELSE -strength
       IN /\ scaled_sample' = sc
          /\ target' = tg
          /\ charge' = ch
          /\ current_sample' = current_sample + ch
          /\ dfpwm_bytes' = Append(dfpwm_bytes, IF hi THEN 1 ELSE 0)
          /\ running_average' = ClampAverage(running_average + ChargeStep(ch))
    /\ UNCHANGED <<pc, pcm_data, samples, pipeVars>>

\* return bytes(dfpwm_bytes)
DfpwmReturn ==
    /\ pc = "dfpwm_loop"
    /\ Len(dfpwm_bytes) = Len(samples)
    /\ pc' = "dfpwm_done"
    /\ UNCHANGED <<dfpwmVars, pipeVars>>

----------------------------------------------------------------------------
(* interleave_audio, interleave_audio_chunks *)

PadByte == 85

\* a result of a call: the value returned, or the exception raised
Returned(v) == [error |-> "none", value |-> v]
Raised(e) == [error |-> e, value |-> <<>>]

\* data[start:stop] on a Python sequence: a negative index counts from the
\* end, and both are clipped to 0..len
PySlice(data, start, stop) ==
    LET n == Len(data)
        lo == IF start < 0 THEN Max(n + start, 0) ELSE Min(start, n)
        hi == IF stop < 0 THEN Max(n + stop, 0) ELSE Min(stop, n)
    IN [k \in 1..Max(0, hi - lo) |-> data[lo + k]]

\* b'\x55' * n
PyPad(n) == [k \in 1..Max(0, n) |-> PadByte]

\* max(len(data) for data in channel_data), channel_data not empty
MaxLength(streams) ==
    CHOOSE m \in {Len(streams[i]) : i \in 1..Len(streams)} :
        \A i \in 1..Len(streams) : Len(streams[i]) <= m

\* PaddedChunk without the padding of an incomplete chunk
UnpaddedChunk(data, chunk_idx, size) ==
    PySlice(data, chunk_idx * size, Min(chunk_idx * size + size, Len(data)))

\* the body of interleave_audio's inner loop: the chunk of one channel,
\* padded with 0x55 if it is incomplete
PaddedChunk(data, chunk_idx, size) ==
    LET start == chunk_idx * size
        end == Min(start + size, Len(data))
        chunk == PySlice(data, start, end)
    IN IF Len(chunk) < size THEN chunk \o PyPad(size - Len(chunk)) ELSE chunk

RECURSIVE ChannelsOfChunk(_, _, _, _)
\* "for channel_idx, data in enumerate(channel_data)" from channel i on
ChannelsOfChunk(streams, chunk_idx, size, i) ==
    IF i > Len(streams) THEN <<>>
    ELSE PaddedChunk(streams[i], chunk_idx, size)
             \o ChannelsOfChunk(streams, chunk_idx, size, i + 1)

RECURSIVE ChunksFrom(_, _, _, _)
\* "for chunk_idx in range(num_chunks)" from chunk c on
ChunksFrom(streams, size, num_chunks, c) ==
    IF c >= num_chunks THEN <<>>
    ELSE ChannelsOfChunk(streams, c, size, 1)
             \o ChunksFrom(streams, size, num_chunks, c + 1)

interleave_audio(streams, size) ==
    IF streams = <<>> THEN Returned(<<>>)
    ELSE IF size = 0 THEN Raised("ZeroDivisionError")
    ELSE LET max_length == MaxLength(streams)
             num_chunks == PyFloorDiv(max_length + size - 1, size)
         IN Returned(ChunksFrom(streams, size, num_chunks, 0))

\* the chunk of one channel, an incomplete chunk padded with 0x00 bytes
\* instead of 0x55
SilencePaddedChunk(data, chunk_idx, size) ==
    LET start == chunk_idx * size
        chunk == PySlice(data, start, Min(start + size, Len(data)))
    IN chunk \o [k \in 1..(size - Len(chunk)) |-> 0]

\* the body of interleave_audio_chunks' inner loop
PaddedChunk2(data, chunk_idx, size) ==
    LET start == chunk_idx * size
        end == Min(start + size, Len(data))
        chunk == PySlice(data, start, end)
    IN IF Len(chunk) < size THEN chunk \o PyPad(size - Len(chunk)) ELSE chunk

RECURSIVE ChannelsOfChunk2(_, _, _, _)
ChannelsOfChunk2(streams, chunk_idx, size, i) ==
    IF i > Len(streams) THEN <<>>
    ELSE PaddedChunk2(streams[i], chunk_idx, size)
             \o ChannelsOfChunk2(streams, chunk_idx, size, i + 1)

RECURSIVE ChunksFrom2(_, _, _, _)
ChunksFrom2(streams, size, num_chunks, c) ==
    IF c >= num_chunks THEN <<>>
    ELSE ChannelsOfChunk2(streams, c, size, 1)
             \o ChunksFrom2(streams, size, num_chunks, c + 1)

interleave_audio_chunks(streams, size) ==
    IF streams = <<>> THEN Returned(<<>>)
    ELSE IF size = 0 THEN Raised("ZeroDivisionError")
    ELSE LET max_length == MaxLength(streams)
             num_chunks == PyFloorDiv(max_length + size - 1, size)
         IN Returned(ChunksFrom2(streams, size, num_chunks, 0))

\* a call of interleave_audio(channel_data, chunk_size)
InterleaveAudioCall ==
    /\ pc = "interleave_call"
    /\ LET r == interleave_audio(channel_data, chunk_size)
       IN /\ interleaved_data' = r.value
          /\ error' = r.error
    /\ pc' = "interleave_audio_done"
    /\ UNCHANGED <<dfpwmVars, mode, config_file, channel_config, channels,
                   chunk_size, artist, title, album, channel_data,
                   encode_failed, encoded_for, channel_count, payload_length, header, file>>

\* a call of interleave_audio_chunks(channel_data, chunk_size)
InterleaveAudioChunksCall ==
    /\ pc = "interleave_call"
    /\ LET r == interleave_audio_chunks(channel_data, chunk_size)
       IN /\ interleaved_data' = r.value
          /\ error' = r.error
    /\ pc' = "interleave_audio_chunks_done"
    /\ UNCHANGED <<dfpwmVars, mode, config_file, channel_config, channels,
                   chunk_size, artist, title, album, channel_data,
                   encode_failed, encoded_for, channel_count, payload_length, header, file>>

----------------------------------------------------------------------------
(* parse_channel_config *)

\* A configuration is what json.load returned: a list of channel entries,
\* or something that is no list. A channel entry is a dict: each of the keys
\* name, index and filter is present or absent (an absent key's value is
\* written "" or -1 here and never read).

\* FirstMissingName with the required-field check left out
NoMissingName(items) == 0

\* the position of the first entry that lacks 'name', 0 if none does
FirstMissingName(items) ==
    IF \A i \in 1..Len(items) : items[i].has_name THEN 0
    ELSE CHOOSE i \in 1..Len(items) :
            /\ ~items[i].has_name
            /\ \A j \in 1..(i - 1) : items[j].has_name

\* PositionIndex counting from 1 ("enumerate(config, 1)")
PositionIndexFromOne(i) == i

\* the index given to the entry at 1-based position i: enumerate's i
PositionIndex(i) == i - 1

\* "if 'index' not in channel: channel['index'] = i" for the entries at
\* positions 1..upto
AssignIndexes(items, upto) ==
    [i \in 1..Len(items) |->
        IF i <= upto /\ ~items[i].has_index
        THEN [items[i] EXCEPT !.has_index = TRUE, !.index = PositionIndex(i)]
        ELSE items[i]]

\* the call's outcome: the exception or the list returned, and the
\* argument as the call leaves it (the entries are changed in place, those
\* before a failing entry included)
parse_channel_config(config) ==
    IF ~config.is_list
    THEN [error |-> "ValueError", value |-> <<>>, config |-> config]
    ELSE LET bad == FirstMissingName(config.items)
         IN IF bad # 0
            THEN [error |-> "ValueError", value |-> <<>>,
                  config |-> [config EXCEPT
                                 !.items = AssignIndexes(config.items, bad - 1)]]
            ELSE LET done == AssignIndexes(config.items, Len(config.items))
                 IN [error |-> "none", value |-> done,
                     config |-> [config EXCEPT !.items = done]]

\* a call of parse_channel_config(channel_config)
ParseCall ==
    /\ pc = "parse_call"
    /\ LET r == parse_channel_config(channel_config)
       IN /\ channels' = r.value
          /\ channel_config' = r.config
          /\ error' = r.error
    /\ pc' = "parse_done"
    /\ UNCHANGED <<dfpwmVars, mode, config_file, chunk_size, artist, title,
                   album, channel_data, encode_failed, encoded_for, interleaved_data,
                   channel_count, payload_length, header, file>>

----------------------------------------------------------------------------
(* build_header, write_dmdfpwm *)

\* self.magic = b"DMDFPWM"
magic == <<68, 77, 68, 70, 80, 87, 77>>
version == 1

UInt16Max == 65535

\* a Python integer that may need all 32 bits, as its two 16-bit halves:
\* the integer n is [hi |-> n // 65536, lo |-> n % 65536]
Wide(n) == [hi |-> n \div 65536, lo |-> n % 65536]

\* the n little-endian bytes of v
RECURSIVE LittleEndian(_, _)
LittleEndian(v, n) ==
    IF n = 0 THEN <<>> ELSE <<v % 256>> \o LittleEndian(v \div 256, n - 1)

\* struct.pack('<I', v) of a wide v: struct.error unless 0 <= v <= 2^32 - 1
PackUInt32(v) ==
    IF v.hi < 0 \/ v.hi > UInt16Max THEN Raised("struct.error")
    ELSE Returned(LittleEndian(v.lo, 2) \o LittleEndian(v.hi, 2))

\* struct.pack('<H', v): struct.error unless 0 <= v <= 65535
PackUInt16(v) ==
    IF v < 0 \/ v > UInt16Max THEN Raised("struct.error")
    ELSE Returned(LittleEndian(v, 2))

\* build_header with the channel count and the chunk size in each other's
\* place
build_header_swapped(count, size, length) ==
    LET p == PackUInt32(length)
        c == PackUInt16(count)
        k == PackUInt16(size)
    IN IF p.error # "none" THEN p
       ELSE IF c.error # "none" THEN c
       ELSE IF k.error # "none" THEN k
       ELSE Returned(magic \o <<version>> \o p.value \o k.value \o c.value)

build_header(count, size, length) ==
    LET p == PackUInt32(length)
        c == PackUInt16(count)
        k == PackUInt16(size)
    IN IF p.error # "none" THEN p
       ELSE IF c.error # "none" THEN c
       ELSE IF k.error # "none" THEN k
       ELSE Returned(magic \o <<version>> \o p.value \o c.value \o k.value)

\* the UTF-8 bytes of one code point (no surrogate)
Utf8Char(cp) ==
    IF cp < 128 THEN <<cp>>
    ELSE IF cp < 2048 THEN <<192 + (cp \div 64), 128 + (cp % 64)>>
    ELSE IF cp < 65536
         THEN <<224 + (cp \div 4096), 128 + ((cp \div 64) % 64),
                128 + (cp % 64)>>
    ELSE <<240 + (cp \div 262144), 128 + ((cp \div 4096) % 64),
           128 + ((cp \div 64) % 64), 128 + (cp % 64)>>

RECURSIVE EncodeUtf8(_)
\* str.encode('utf-8')
EncodeUtf8(str) ==
    IF str = <<>> THEN <<>> ELSE Utf8Char(Head(str)) \o EncodeUtf8(Tail(str))

\* a string written as one length byte followed by its UTF-8 bytes, with no
\* terminator
LengthPrefixed(str) == <<Len(EncodeUtf8(str))>> \o EncodeUtf8(str)

\* text.encode('utf-8') + b'\x00'
NulTerminated(str) == EncodeUtf8(str) \o <<0>>

\* the bytes write_dmdfpwm writes to the file it opened, in order
write_dmdfpwm(hdr, art, tit, alb, audio_data) ==
    hdr \o NulTerminated(art) \o NulTerminated(tit) \o NulTerminated(alb)
        \o audio_data

\* a call of build_header(channel_count, chunk_size, payload_length)
BuildHeaderCall ==
    /\ pc = "header_call"
    /\ LET r == build_header(channel_count, chunk_size, payload_length)
       IN /\ header' = r.value
          /\ error' = r.error
          /\ pc' = IF r.error = "none" THEN "header_done" ELSE "header_failed"
    /\ UNCHANGED <<dfpwmVars, mode, config_file, channel_config, channels,
                   chunk_size, artist, title, album, channel_data,
                   encode_failed, encoded_for, interleaved_data, channel_count,
                   payload_length, file>>

\* a call of write_dmdfpwm with the header just built
WriteCall ==
    /\ pc = "header_done"
    /\ file' = write_dmdfpwm(header, artist, title, album, interleaved_data)
    /\ pc' = "write_done"
    /\ UNCHANGED <<dfpwmVars, mode, config_file, channel_config, channels,
                   chunk_size, artist, title, album, channel_data,
                   encode_failed, encoded_for, interleaved_data, channel_count,
                   payload_length, header, error>>

----------------------------------------------------------------------------
(* encode_audio, run_interactive, run_command_line *)

\* encode_audio returning one byte of silence for a channel whose external
\* encode failed
encode_audio_silence(ffmpeg_ok, dfpwm_data) ==
    IF ffmpeg_ok THEN dfpwm_data ELSE <<0>>

\* encode_audio seen from its caller: the bytes FFmpeg wrote for the
\* channel, or b'' when the external encode failed (the exception is caught
\* and printed)
encode_audio(ffmpeg_ok, dfpwm_data) == IF ffmpeg_ok THEN dfpwm_data ELSE <<>>

\* run_interactive's payload length with the strings' lengths in characters
\* instead of encoded bytes
InteractivePayloadLengthChars(art, tit, alb, data) ==
    (Len(art) + 1) + (Len(tit) + 1) + (Len(alb) + 1) + Len(data)

\* run_interactive: len(artist_bytes) + len(title_bytes) + len(album_bytes)
\* + len(interleaved_data)
InteractivePayloadLength(art, tit, alb, data) ==
    Len(NulTerminated(art)) + Len(NulTerminated(tit)) + Len(NulTerminated(alb))
        + Len(data)

\* run_command_line: the same sum with b'' + b'\x00' for each string
CommandLinePayloadLength(data) ==
    Len(<<>> \o <<0>>) + Len(<<>> \o <<0>>) + Len(<<>> \o <<0>>) + Len(data)

\* channels = encoder.parse_channel_config(channel_config); a ValueError
\* ends the run
RunParse ==
    /\ pc = "run_parse"
    /\ LET r == parse_channel_config(channel_config)
       IN /\ channels' = r.value
          /\ channel_config' = r.config
          /\ error' = r.error
          /\ pc' = IF r.error = "none" THEN "run_encode" ELSE "run_failed"
    /\ UNCHANGED <<dfpwmVars, mode, config_file, chunk_size, artist, title,
                   album, channel_data, encode_failed, encoded_for, interleaved_data,
                   channel_count, payload_length, header, file>>

\* the channel of the k-th iteration if the loop ran over the channels
\* sorted by their index values (a stable sort) instead of in list order
LoopChannelByIndex(chs, k) ==
    LET n == Len(chs)
        order == CHOOSE p \in [1..n -> 1..n] :
                    /\ \A i, j \in 1..n : i # j => p[i] # p[j]
                    /\ \A i, j \in 1..n : i < j =>
                          \/ chs[p[i]].index < chs[p[j]].index
                          \/ /\ chs[p[i]].index = chs[p[j]].index
                             /\ p[i] < p[j]
    IN chs[order[k]]

\* "for channel in channels": the channel of the k-th iteration is the
\* k-th entry of the list
LoopChannel(chs, k) == chs[k]

\* one iteration of "for channel in channels": encode the next channel and
\* append what encode_audio returned
RunEncode ==
    /\ pc = "run_encode"
    /\ Len(channel_data) < Len(channels)
    /\ \E ffmpeg_ok \in BOOLEAN :
          \E dfpwm_data \in EncodedStreams :
             /\ (~ffmpeg_ok => dfpwm_data = <<>>)
             /\ channel_data' =
                    Append(channel_data, encode_audio(ffmpeg_ok, dfpwm_data))
             /\ encode_failed' = Append(encode_failed, ~ffmpeg_ok)
    /\ encoded_for' =
           Append(encoded_for, LoopChannel(channels, Len(channel_data) + 1))
    /\ UNCHANGED <<pc, dfpwmVars, mode, config_file, channel_config, channels,
                   chunk_size, artist, title, album, interleaved_data,
                   channel_count, payload_length, header, file, error>>

\* after the loop: interleave_audio_chunks in interactive mode,
\* interleave_audio in command-line mode; an exception ends the run
RunInterleave ==
    /\ pc = "run_encode"
    /\ Len(channel_data) = Len(channels)
    /\ LET r == IF mode = "interactive"
                THEN interleave_audio_chunks(channel_data, chunk_size)
                ELSE interleave_audio(channel_data, chunk_size)
       IN /\ interleaved_data' = r.value
          /\ error' = r.error
          /\ pc' = IF r.error = "none" THEN "run_header" ELSE "run_failed"
    /\ UNCHANGED <<dfpwmVars, mode, config_file, channel_config, channels,
                   chunk_size, artist, title, album, channel_data,
                   encode_failed, encoded_for, channel_count, payload_length, header, file>>

\* the payload length, then header = build_header(len(channels),
\* chunk_size, payload_length); a struct.error ends the run
RunHeader ==
    /\ pc = "run_header"
    /\ LET length == IF mode = "interactive"
                     THEN InteractivePayloadLength(artist, title, album,
                                                   interleaved_data)
                     ELSE CommandLinePayloadLength(interleaved_data)
           r == build_header(Len(channels), chunk_size, Wide(length))
       IN /\ payload_length' = Wide(length)
          /\ channel_count' = Len(channels)
          /\ header' = r.value
          /\ error' = r.error
          /\ pc' = IF r.error = "none" THEN "run_write" ELSE "run_failed"
    /\ UNCHANGED <<dfpwmVars, mode, config_file, channel_config, channels,
                   chunk_size, artist, title, album, channel_data,
                   encode_failed, encoded_for, interleaved_data, file>>

\* write_dmdfpwm(output, header, artist, title, album, interleaved_data);
\* command-line mode passes '' for the three strings
RunWrite ==
    /\ pc = "run_write"
    /\ file' = IF mode = "interactive"
               THEN write_dmdfpwm(header, artist, title, album, interleaved_data)
               ELSE write_dmdfpwm(header, <<>>, <<>>, <<>>, interleaved_data)
    /\ pc' = "run_done"
    /\ UNCHANGED <<dfpwmVars, mode, config_file, channel_config, channels,
                   chunk_size, artist, title, album, channel_data,
                   encode_failed, encoded_for, interleaved_data, channel_count,
                   payload_length, header, error>>

----------------------------------------------------------------------------
(* Idle values of the variables a specification does not use. *)

IdleDfpwm ==
    /\ pcm_data = <<>>
    /\ samples = <<>>
    /\ current_sample = 0
    /\ running_average = 0
    /\ dfpwm_bytes = <<>>
    /\ scaled_sample = 0
    /\ target = 0
    /\ charge = 0

IdlePipe ==
    /\ mode = "call"
    /\ config_file = [is_list |-> TRUE, items |-> <<>>]
    /\ channel_config = config_file
    /\ channels = <<>>
    /\ chunk_size = 1
    /\ artist = <<>>
    /\ title = <<>>
    /\ album = <<>>
    /\ channel_data = <<>>
    /\ encode_failed = <<>>
    /\ encoded_for = <<>>
    /\ interleaved_data = <<>>
    /\ channel_count = 0
    /\ payload_length = Wide(0)
    /\ header = <<>>
    /\ file = <<>>
    /\ error = "none"

----------------------------------------------------------------------------
(* The delta modulator called on bounded pcm inputs. *)

InitDfpwm ==
    /\ pc = "dfpwm_call"
    /\ pcm_data \in SeqUpTo(PcmBytes, MaxPcmLen)
    /\ samples = <<>>
    /\ current_sample = 0
    /\ running_average = 0
    /\ dfpwm_bytes = <<>>
    /\ scaled_sample = 0
    /\ target = 0
    /\ charge = 0
    /\ IdlePipe

NextDfpwm == DfpwmCall \/ DfpwmStep \/ DfpwmReturn

SpecDfpwm == InitDfpwm /\ [][NextDfpwm]_vars

(* The delta modulator called on every single 16-bit sample. *)

InitScale ==
    /\ pc = "dfpwm_call"
    /\ pcm_data \in SeqOf(0..255, 2)
    /\ samples = <<>>
    /\ current_sample = 0
    /\ running_average = 0
    /\ dfpwm_bytes = <<>>
    /\ scaled_sample = 0
    /\ target = 0
    /\ charge = 0
    /\ IdlePipe

SpecScale == InitScale /\ [][NextDfpwm]_vars

----------------------------------------------------------------------------
(* Properties of the delta modulator. *)

\* C4: the modulator returns one byte per input sample (two pcm bytes; a
\* trailing odd byte is no sample), every byte 0 or 1; an empty input
\* returns an empty output; and the call never stops before it returns.
DfpwmOneBytePerSample ==
    /\ pc = "dfpwm_done" =>
          /\ Len(dfpwm_bytes) = Len(pcm_data) \div 2
          /\ \A k \in 1..Len(dfpwm_bytes) : dfpwm_bytes[k] \in {0, 1}
          /\ (pcm_data = <<>> => dfpwm_bytes = <<>>)
    /\ pc \in {"dfpwm_call", "dfpwm_loop"} => ENABLED NextDfpwm

\* a two-sample input (127, 0) has been encoded to the bytes 1, 0
DfpwmTwoSamplesEncoded ==
    /\ pc = "dfpwm_done"
    /\ pcm_data = <<127, 0, 0, 0>>
    /\ dfpwm_bytes = <<1, 0>>

\* C5: at every sample step, target = scaled - running_average (the average
\* before the step); target > accumulator emits 1 and adds 127 to the
\* accumulator, anything else (the tie included) emits 0 and subtracts 127;
\* both start at 0 in each call.
DfpwmDecisionRule ==
    [][ /\ (pc = "dfpwm_call" /\ pc' = "dfpwm_loop") =>
              (current_sample' = 0 /\ running_average' = 0)
        /\ (pc = "dfpwm_loop" /\ Len(dfpwm_bytes') = Len(dfpwm_bytes) + 1) =>
              /\ target' = scaled_sample' - running_average
              /\ IF target' > current_sample
                 THEN /\ dfpwm_bytes'[Len(dfpwm_bytes')] = 1
                      /\ current_sample' = current_sample + 127
                 ELSE /\ dfpwm_bytes'[Len(dfpwm_bytes')] = 0
                      /\ current_sample' = current_sample - 127
      ]_vars

\* a step has just taken the tie: the sample 0 gave target 0 against the
\* accumulator 0, a 0 was emitted and the accumulator is now -127
DfpwmTieStepTaken ==
    /\ pc = "dfpwm_loop"
    /\ dfpwm_bytes = <<0>>
    /\ samples[1] = 0
    /\ target = 0
    /\ target = current_sample + 127

\* C6 (as claimed): each step changes running_average by charge/16 truncated
\* toward zero, +7 after a 1 and -7 after a 0, then clamps it to
\* [-32767, 32767].
DfpwmAverageStepTruncates ==
    [][ (pc = "dfpwm_loop" /\ Len(dfpwm_bytes') = Len(dfpwm_bytes) + 1) =>
            LET bit == dfpwm_bytes'[Len(dfpwm_bytes')]
                moved == running_average + (IF bit = 1 THEN 7 ELSE -7)
            IN /\ running_average' = Max(-32767, Min(32767, moved))
               /\ running_average' >= -32767
               /\ running_average' <= 32767
      ]_vars

\* C7 (as claimed): the value compared is floor(sample * 32767 / 32768),
\* rounded toward negative infinity, and lies in [-32767, 32767].
DfpwmScaledIsFloor ==
    (pc = "dfpwm_loop" /\ Len(dfpwm_bytes) >= 1) =>
        LET sample == samples[Len(dfpwm_bytes)]
        IN /\ scaled_sample = (sample * 32767) \div 32768
           /\ scaled_sample >= -32767
           /\ scaled_sample <= 32767

\* C7 (amended): the value compared is sample * 32767 / 32768 truncated
\* toward zero (sample -1 scales to 0, not -1), and lies in [-32767, 32767].
DfpwmScaledIsTruncation ==
    (pc = "dfpwm_loop" /\ Len(dfpwm_bytes) >= 1) =>
        LET sample == samples[Len(dfpwm_bytes)]
            magnitude == IF sample >= 0 THEN sample ELSE -sample
            quotient == (magnitude * 32767) \div 32768
        IN /\ -32768 <= sample /\ sample <= 32767
           /\ scaled_sample = (IF sample >= 0 THEN quotient ELSE -quotient)
           /\ scaled_sample >= -32767
           /\ scaled_sample <= 32767

\* the sample -1 has been scaled, to 0
DfpwmMinusOneScaled ==
    /\ pc = "dfpwm_loop"
    /\ pcm_data = <<255, 255>>
    /\ samples = <<-1>>
    /\ Len(dfpwm_bytes) = 1
    /\ scaled_sample = 0

----------------------------------------------------------------------------
(* The interleavers called on bounded channel streams and chunk sizes. *)

InitInterleave ==
    /\ pc = "interleave_call"
    /\ IdleDfpwm
    /\ mode = "call"
    /\ config_file = [is_list |-> TRUE, items |-> <<>>]
    /\ channel_config = config_file
    /\ channels = <<>>
    /\ chunk_size \in (-MaxChunk)..MaxChunk
    /\ artist = <<>>
    /\ title = <<>>
    /\ album = <<>>
    /\ channel_data \in
           SeqUpTo(SeqUpTo(StreamBytes, MaxStreamLen), MaxChannels)
               \cup {ExampleStreams}
    /\ encode_failed = <<>>
    /\ encoded_for = <<>>
    /\ interleaved_data = <<>>
    /\ channel_count = 0
    /\ payload_length = Wide(0)
    /\ header = <<>>
    /\ file = <<>>
    /\ error = "none"

NextInterleave == InterleaveAudioCall \/ InterleaveAudioChunksCall

SpecInterleave == InitInterleave /\ [][NextInterleave]_vars

\* C1: for a non-empty list of streams and a positive chunk_size,
\* interleave_audio returns ceil(max_length / chunk_size) * chunk_size *
\* channel_count bytes, and the byte at offset c*chunk_size*channel_count +
\* i*chunk_size + j is byte c*chunk_size + j of channel i, or 0x55 at and
\* beyond that channel's length.
InterleaveFixedStride ==
    (pc = "interleave_audio_done" /\ channel_data # <<>> /\ chunk_size > 0) =>
        LET n == Len(channel_data)
            longest == CHOOSE m \in 0..(MaxStreamLen + 3) :
                          /\ \A i \in 1..n : Len(channel_data[i]) <= m
                          /\ \E i \in 1..n : Len(channel_data[i]) = m
            chunks == CHOOSE k \in 0..longest :
                          /\ k * chunk_size >= longest
                          /\ (k - 1) * chunk_size < longest
        IN /\ error = "none"
           /\ Len(interleaved_data) = chunks * chunk_size * n
           /\ \A c \in 0..(chunks - 1) : \A i \in 0..(n - 1) :
                 \A j \in 0..(chunk_size - 1) :
                    interleaved_data[c * chunk_size * n + i * chunk_size + j + 1]
                      = IF c * chunk_size + j < Len(channel_data[i + 1])
                        THEN channel_data[i + 1][c * chunk_size + j + 1]
                        ELSE 85

\* the streams [1,0,1] and [0,1] with chunk_size 2 have been interleaved to
\* the 8 bytes 1,0, 0,1, 1,0x55, 0x55,0x55
InterleaveExampleDone ==
    /\ pc = "interleave_audio_done"
    /\ channel_data = << <<1, 0, 1>>, <<0, 1>> >>
    /\ chunk_size = 2
    /\ interleaved_data = <<1, 0, 0, 1, 1, 85, 85, 85>>

\* C8 (as claimed): a call of either interleaver with chunk_size <= 0 fails
\* instead of returning a byte sequence, whatever the streams are. (Stated
\* here for the lists that hold a non-empty stream only: an empty list
\* returns an empty result before chunk_size is looked at.)
InterleaveRejectsNonPositiveChunk ==
    (pc \in {"interleave_audio_done", "interleave_audio_chunks_done"}
        /\ (\E i \in 1..Len(channel_data) : channel_data[i] # <<>>)
        /\ chunk_size <= 0) => error # "none"

----------------------------------------------------------------------------
(* parse_channel_config called on bounded configurations. *)

InitParse ==
    /\ pc = "parse_call"
    /\ IdleDfpwm
    /\ mode = "call"
    /\ config_file \in {NotAList} \cup
           {[is_list |-> TRUE, items |-> it] :
                it \in SeqUpTo(ChannelEntries, MaxEntries)}
    /\ channel_config = config_file
    /\ channels = <<>>
    /\ chunk_size = 1
    /\ artist = <<>>
    /\ title = <<>>
    /\ album = <<>>
    /\ channel_data = <<>>
    /\ encode_failed = <<>>
    /\ encoded_for = <<>>
    /\ interleaved_data = <<>>
    /\ channel_count = 0
    /\ payload_length = Wide(0)
    /\ header = <<>>
    /\ file = <<>>
    /\ error = "none"

NextParse == ParseCall

SpecParse == InitParse /\ [][NextParse]_vars

\* C9: the call fails with a validation error (ValueError) exactly when the
\* input is no list or some entry has no name; a list whose entries all have
\* a name is accepted, duplicate and unknown names included.
ParseFailsIffNoListOrNoName ==
    pc = "parse_done" =>
        LET invalid == \/ ~config_file.is_list
                       \/ \E i \in 1..Len(config_file.items) :
                             ~config_file.items[i].has_name
        IN /\ invalid => error = "ValueError"
           /\ ~invalid => error = "none"

\* a list whose second entry has no name has been rejected
ParseRejectedNameless ==
    /\ pc = "parse_done"
    /\ config_file.is_list
    /\ Len(config_file.items) = 2
    /\ config_file.items[1].has_name
    /\ ~config_file.items[2].has_name
    /\ error = "ValueError"

\* C10: a successful call returns the input's entries in the input's order;
\* an entry without index gets its zero-based position as index, an index
\* already there is kept, and every name and filter is unchanged.
ParseKeepsEntries ==
    (pc = "parse_done" /\ error = "none") =>
        /\ Len(channels) = Len(config_file.items)
        /\ \A i \in 1..Len(channels) :
              LET old == config_file.items[i]
                  new == channels[i]
              IN /\ new.has_name = old.has_name /\ new.name = old.name
                 /\ new.has_filter = old.has_filter /\ new.filter = old.filter
                 /\ new.has_index
                 /\ new.index = (IF old.has_index THEN old.index ELSE i - 1)

\* a list with the same unknown name twice, the first entry with index 7 and
\* the second without index, has been accepted: 7 kept, 1 assigned
ParseAssignedPosition ==
    /\ pc = "parse_done"
    /\ error = "none"
    /\ Len(config_file.items) = 2
    /\ config_file.items[1].name = "XX" /\ config_file.items[2].name = "XX"
    /\ config_file.items[1].index = 7
    /\ ~config_file.items[2].has_index
    /\ channels[1].index = 7
    /\ channels[2].index = 1

----------------------------------------------------------------------------
(* build_header called on bounded arguments, and write_dmdfpwm called with *)
(* the header it returned.                                                 *)

InitHeader ==
    /\ pc = "header_call"
    /\ IdleDfpwm
    /\ mode = "call"
    /\ config_file = [is_list |-> TRUE, items |-> <<>>]
    /\ channel_config = config_file
    /\ channels = <<>>
    /\ chunk_size \in HeaderCounts
    /\ artist \in {<<>>, <<65>>}
    /\ title = <<>>
    /\ album = <<>>
    /\ channel_data = <<>>
    /\ encode_failed = <<>>
    /\ encoded_for = <<>>
    /\ interleaved_data \in {<<>>, <<1, 0>>}
    /\ channel_count \in HeaderCounts
    /\ payload_length \in HeaderLengths
    /\ header = <<>>
    /\ file = <<>>
    /\ error = "none"

NextHeader == BuildHeaderCall \/ WriteCall

SpecHeader == InitHeader /\ [][NextHeader]_vars

\* C3: for channel_count and chunk_size in 0..65535 and payload_length in
\* 0..2^32-1, build_header returns 16 bytes: "DMDFPWM", the version byte 1,
\* payload_length in 4 little-endian bytes at offset 8 (its low half in the
\* first two, its high half in the last two), channel_count in 2 at offset
\* 12 and chunk_size in 2 at offset 14; and the file written starts with
\* that header.
HeaderLayout ==
    LET inRange == /\ 0 <= channel_count /\ channel_count <= 65535
                   /\ 0 <= chunk_size /\ chunk_size <= 65535
                   /\ 0 <= payload_length.hi /\ payload_length.hi <= 65535
    IN /\ (pc = "header_call" /\ inRange) =>
              build_header(channel_count, chunk_size, payload_length).error = "none"
       /\ (pc \in {"header_done", "write_done"} /\ inRange) =>
             /\ Len(header) = 16
             /\ \A k \in 1..16 : header[k] \in 0..255
             /\ SubSeq(header, 1, 7) = <<68, 77, 68, 70, 80, 87, 77>>
             /\ header[8] = 1
             /\ header[9] + 256 * header[10] = payload_length.lo
             /\ header[11] + 256 * header[12] = payload_length.hi
             /\ header[13] + 256 * header[14] = channel_count
             /\ header[15] + 256 * header[16] = chunk_size
       /\ pc = "write_done" =>
             /\ Len(file) >= 16
             /\ SubSeq(file, 1, 16) = header

\* the header for 513 channels, chunk size 256 and payload length 0x01020304
\* has been built and written first to a file that holds more bytes
HeaderWrittenFirst ==
    /\ pc = "write_done"
    /\ channel_count = 513
    /\ chunk_size = 256
    /\ payload_length = [hi |-> 258, lo |-> 772]
    /\ SubSeq(file, 1, 16)
         = <<68, 77, 68, 70, 80, 87, 77, 1, 4, 3, 2, 1, 1, 2, 0, 1>>
    /\ Len(file) = 22

----------------------------------------------------------------------------
(* The encode runs: run_interactive and run_command_line from the point    *)
(* where the input file, the configuration, the track information and the  *)
(* chunk size are known. In interactive mode the chunk size is what        *)
(* get_chunk_size_interactive returned, a positive number; in command-line *)
(* mode it is --chunk-size, any integer, and artist, title and album are   *)
(* the fields of --metadata, which the run never reads.                    *)

Init ==
    /\ pc = "run_parse"
    /\ IdleDfpwm
    /\ mode \in {"interactive", "command_line"}
    /\ config_file \in {NotAList} \cup
           {[is_list |-> TRUE, items |-> it] :
                it \in SeqUpTo(PipeEntries, MaxPipeChannels)}
    /\ channel_config = config_file
    /\ channels = <<>>
    /\ chunk_size \in (-1)..MaxPipeChunk
    /\ (mode = "interactive" => chunk_size > 0)
    /\ \E info \in TrackInfos :
          /\ artist = info[1]
          /\ title = info[2]
          /\ album = info[3]
    /\ channel_data = <<>>
    /\ encode_failed = <<>>
    /\ encoded_for = <<>>
    /\ interleaved_data = <<>>
    /\ channel_count = 0
    /\ payload_length = Wide(0)
    /\ header = <<>>
    /\ file = <<>>
    /\ error = "none"

Next == RunParse \/ RunEncode \/ RunInterleave \/ RunHeader \/ RunWrite

Spec == Init /\ [][Next]_vars

\* C2: in every file a run writes, in either mode, the payload_length field
\* of the header (the little-endian bytes at offsets 8..11) is the number of
\* bytes that follow the 16-byte header; and no run leaves a file without
\* having written all of it.
PayloadLengthMatchesFile ==
    /\ pc = "run_done" =>
          /\ Len(file) >= 16
          /\ Wide(Len(file) - 16)
               = [hi |-> file[11] + 256 * file[12], lo |-> file[9] + 256 * file[10]]
    /\ pc # "run_done" => file = <<>>

\* an interactive run with a two-byte artist, a seven-byte title and a
\* two-byte album has written a file whose two channels fill two chunks,
\* the second channel's with padding only
PayloadLengthWitness ==
    /\ pc = "run_done"
    /\ mode = "interactive"
    /\ artist = <<233>>
    /\ Len(channels) = 2
    /\ chunk_size = 1
    /\ interleaved_data = <<1, 85, 0, 85>>
    /\ Len(file) = 16 + 3 + 8 + 3 + 4
    /\ file[9] = 18

\* the fields of a byte string made of NUL-terminated fields, in order
RECURSIVE SplitNul(_, _)
SplitNul(bytes, field) ==
    IF bytes = <<>> THEN IF field = <<>> THEN <<>> ELSE <<field>>
    ELSE IF Head(bytes) = 0 THEN <<field>> \o SplitNul(Tail(bytes), <<>>)
    ELSE SplitNul(Tail(bytes), Append(field, Head(bytes)))

\* the code points a UTF-8 byte string decodes to
RECURSIVE DecodeUtf8(_)
DecodeUtf8(bytes) ==
    IF bytes = <<>> THEN <<>>
    ELSE LET b == bytes[1]
             n == IF b < 128 THEN 1 ELSE IF b < 224 THEN 2
                  ELSE IF b < 240 THEN 3 ELSE 4
             lead == IF n = 1 THEN b ELSE IF n = 2 THEN b - 192
                     ELSE IF n = 3 THEN b - 224 ELSE b - 240
             Cont(k) == bytes[k] - 128
             cp == IF n = 1 THEN lead
                   ELSE IF n = 2 THEN lead * 64 + Cont(2)
                   ELSE IF n = 3 THEN lead * 4096 + Cont(2) * 64 + Cont(3)
                   ELSE lead * 262144 + Cont(2) * 4096 + Cont(3) * 64 + Cont(4)
         IN <<cp>> \o DecodeUtf8(SubSeq(bytes, n + 1, Len(bytes)))

\* the bytes of a written file between its 16-byte header and its payload
MetadataSection == SubSeq(file, 17, Len(file) - Len(interleaved_data))

ChannelSlotIsListPosition ==
    LET n == Len(channels)
        collected == pc \in {"run_header", "run_write", "run_done"}
    IN /\ pc \in {"run_encode", "run_header", "run_write", "run_done"} =>
             /\ n = Len(config_file.items)
             /\ \A k \in 1..n :
                   /\ channels[k].name = config_file.items[k].name
                   /\ config_file.items[k].has_index =>
                         channels[k].index = config_file.items[k].index
             /\ Len(encoded_for) = Len(channel_data)
             /\ Len(channel_data) <= n
             /\ \A k \in 1..Len(channel_data) : encoded_for[k] = channels[k]
       /\ collected => Len(channel_data) = n
       /\ collected /\ chunk_size <= 0 => interleaved_data = <<>>
       /\ collected /\ chunk_size > 0 =>
             LET stride == n * chunk_size
                 count == IF stride = 0 THEN 0
                          ELSE Len(interleaved_data) \div stride
             IN /\ Len(interleaved_data) = count * stride
                /\ \A k \in 1..n : Len(channel_data[k]) <= count * chunk_size
                /\ \A c \in 0..(count - 1) : \A k \in 1..n :
                      \A j \in 1..chunk_size :
                         interleaved_data[c * stride + (k - 1) * chunk_size + j]
                           = IF c * chunk_size + j <= Len(channel_data[k])
                             THEN channel_data[k][c * chunk_size + j]
                             ELSE PadByte
       /\ pc = "run_done" =>
             /\ channel_count = n
             /\ file[13] + 256 * file[14] = Len(config_file.items)

\* a completed run for the descriptors XX with index 7 and FL without index
\* (it got its position, 1): the stream of XX fills the first slot of both
\* chunks and the stream of FL the second, as listed
UnsortedIndexesFollowListOrder ==
    /\ pc = "run_done"
    /\ Len(channels) = 2
    /\ channels[1].name = "XX" /\ channels[1].index = 7
    /\ channels[2].name = "FL" /\ channels[2].index = 1
    /\ chunk_size = 1
    /\ channel_data = << <<1>>, <<1, 0>> >>
    /\ interleaved_data = <<1, 1, PadByte, 0>>
    /\ file[13] = 2

\* C13: interleave_audio and interleave_audio_chunks return the same bytes
\* for every list of streams and every chunk size, and fail on the same
\* inputs with the same exception: what a call of either left is what the
\* other gives for the same arguments.
InterleaversAgree ==
    /\ pc = "interleave_audio_done" =>
          interleave_audio_chunks(channel_data, chunk_size)
            = [error |-> error, value |-> interleaved_data]
    /\ pc = "interleave_audio_chunks_done" =>
          interleave_audio(channel_data, chunk_size)
            = [error |-> error, value |-> interleaved_data]

\* interleave_audio_chunks has interleaved the streams 01 00 01 and 00 01
\* in chunks of two bytes, padding the second chunk, as interleave_audio does
InterleaveChunksExampleDone ==
    /\ pc = "interleave_audio_chunks_done"
    /\ channel_data = ExampleStreams
    /\ chunk_size = 2
    /\ error = "none"
    /\ interleaved_data = <<1, 0, 0, 1, 1, PadByte, PadByte, PadByte>>
    /\ interleave_audio(channel_data, chunk_size).value = interleaved_data

\* some channel's external encode has failed in this run
SomeEncodeFailed == \E k \in 1..Len(encode_failed) : encode_failed[k]

\* a failed encode gives the caller an empty stream, and the run goes on:
\* nothing is raised by the encode loop itself
EncodeFailureYieldsEmpty ==
    /\ Len(encode_failed) = Len(channel_data)
    /\ \A k \in 1..Len(encode_failed) :
          encode_failed[k] => channel_data[k] = <<>>
    /\ pc = "run_encode" => error = "none"

\* in a written file: channel_count counts the failed channels too, every
\* slot of a failed channel is padding only, the slots of the other
\* channels hold their bytes, the number of chunks is what the other
\* channels need, and with every channel failed the payload is empty
FailedChannelSlotsPadded ==
    pc = "run_done" /\ SomeEncodeFailed =>
        LET n == Len(encode_failed)
            stride == n * chunk_size
            count == Len(interleaved_data) \div stride
            ok == {k \in 1..n : ~encode_failed[k]}
        IN /\ chunk_size > 0
           /\ n = Len(config_file.items)
           /\ channel_count = n
           /\ file[13] + 256 * file[14] = n
           /\ Len(interleaved_data) = count * stride
           /\ \A k \in ok : Len(channel_data[k]) <= count * chunk_size
           /\ count > 0 =>
                 \E k \in ok : Len(channel_data[k]) > (count - 1) * chunk_size
           /\ \A c \in 0..(count - 1) : \A k \in 1..n : \A j \in 1..chunk_size :
                 interleaved_data[c * stride + (k - 1) * chunk_size + j]
                   = IF k \in ok /\ c * chunk_size + j <= Len(channel_data[k])
                     THEN channel_data[k][c * chunk_size + j]
                     ELSE PadByte
           /\ ok = {} => interleaved_data = <<>>
           /\ SubSeq(file, Len(file) - Len(interleaved_data) + 1, Len(file))
                = interleaved_data

\* a run in which an encode failed goes on as one without: it has a next
\* step until its file is written, and ends in an exception only in
\* command-line mode for a chunk size that is not positive, from the
\* interleaver or from build_header, as it does when every encode succeeds
RunCompletesDespiteFailure ==
    SomeEncodeFailed =>
        /\ pc # "run_done" /\ pc # "run_failed" => ENABLED Next
        /\ pc = "run_failed" =>
              /\ mode = "command_line"
              /\ chunk_size <= 0
              /\ error \in {"ZeroDivisionError", "struct.error"}
        /\ chunk_size > 0 => pc # "run_failed"

\* C14: when the external encode of a channel fails, encode_audio yields an
\* empty stream instead of raising, and the run still completes and writes a
\* file whose channel_count counts the failed channel, in which every slot
\* of that channel is 0x55 padding only and the other channels' bytes are as
\* without the failure, and whose payload is empty if every channel failed.
\* (A run given a chunk size that is not positive ends in an exception
\* whatever its encodes did.)
EncodeFailureTolerated ==
    /\ EncodeFailureYieldsEmpty
    /\ RunCompletesDespiteFailure
    /\ FailedChannelSlotsPadded

\* a command-line run for two channels whose second encode failed has
\* written a file for two channels: in both chunks the first slot holds the
\* first channel's byte and the second slot padding
SecondChannelFailedWritten ==
    /\ pc = "run_done"
    /\ mode = "command_line"
    /\ encode_failed = <<FALSE, TRUE>>
    /\ chunk_size = 1
    /\ channel_data = << <<1, 0>>, <<>> >>
    /\ interleaved_data = <<1, PadByte, 0, PadByte>>
    /\ file[13] = 2
    /\ Len(file) = 16 + 3 + 4

====
